---- MODULE Spec2Model ----
(***************************************************************************)
(* Model of the fyne TextGrid widget (widget/textgrid.go): the cell buffer *)
(* TextGrid.Content with its mutation API, and the renderer textGridRender *)
(* with its pool of canvas objects (one rectangle and one text per slot).  *)
(*                                                                         *)
(* Runes are code points, strings are sequences of code points, colours    *)
(* are names.  Go's run-time panics (index out of range) are recorded in   *)
(* the variable fault; a panicked program takes no further step.           *)
(*                                                                         *)
(* The text drawer of package painter (tabStop, Drawer.DrawString,         *)
(* MeasureString) is modelled as functions of a face, the theme's tab      *)
(* width, a string and a pen position, applied by the calls of SpecText.   *)
(***************************************************************************)
EXTENDS Integers, Sequences, FiniteSets, TLC

\* ------------------------------------------------------------------------
\* Bounds of the model
\* ------------------------------------------------------------------------
MaxRow == 2        \* SpecBuffer: row arguments range over -1..MaxRow
MaxCol == 1        \* SpecBuffer: column arguments range over -1..MaxCol
MaxText == 2       \* SpecBuffer: SetText strings have at most MaxText runes
MaxRowLen == 1     \* SpecBuffer: SetRow contents have at most MaxRowLen cells
GridMaxRow == 0    \* Spec: row arguments range over 0..GridMaxRow
GridMaxCol == 0    \* Spec: column arguments range over 0..GridMaxCol
GridMaxText == 1   \* Spec: SetText strings have at most GridMaxText runes
GridMaxRowLen == 1 \* Spec: SetRow contents have at most GridMaxRowLen cells
PaintMaxText == 3  \* SpecPaint: the initial text has at most PaintMaxText runes
MaxWidth == 5      \* Layout widths are 0 and MaxWidth pixels
MaxHeight == 4     \* Layout heights are 0 and MaxHeight pixels
GutterLines == 10  \* SpecGutter: the grid is created with at most GutterLines rows
MaxStr == 2        \* SpecText: strings drawn and measured have at most MaxStr runes
MaxAdvance == 1    \* SpecText: glyph advances range over 0..MaxAdvance
MaxKern == 1       \* SpecText: one pair of runes has a kerning in 0..MaxKern
MaxTabWidth == 2   \* SpecText: the theme's tab width ranges over 0..MaxTabWidth
MaxDot == 1        \* SpecText: the pen starts at Dot.X in 0..MaxDot

\* ------------------------------------------------------------------------
\* Runes and colours
\* ------------------------------------------------------------------------
textAreaSpaceSymbol == 183
textAreaNewLineSymbol == 8629
NewLineRune == 10
SpaceRune == 32
PipeRune == 124
DigitZero == 48
TabRune == 9
Letters == {65}     \* the letter 'A'
RuneA == CHOOSE r \in Letters : TRUE

NilColor == "nil"
ThemeTextColor == "theme.TextColor"
ThemeButtonColor == "theme.ButtonColor"
Transparent == "color.Transparent"

\* A TextGridStyle interface value: nil, or a CustomTextGridStyle.
NilStyle == [isNil |-> TRUE, FGColor |-> NilColor, BGColor |-> NilColor]
CustomTextGridStyle(fg, bg) == [isNil |-> FALSE, FGColor |-> fg, BGColor |-> bg]
TextGridStyleDefault == CustomTextGridStyle(NilColor, NilColor)
TextGridStyleWhitespace == CustomTextGridStyle(ThemeButtonColor, NilColor)

TextColor(style) == style.FGColor
BackgroundColor(style) == style.BGColor

\* TextGridCell{Rune: r} and the zero value TextGridCell{}
TextGridCell(r, style) == [Rune |-> r, Style |-> style]
ZeroCell == TextGridCell(0, NilStyle)

\* The monospace cell size measured in CreateRenderer.
cellWidth == 2
cellHeight == 3

NoFault == "none"
ObjectsFault == "objects index out of range"
ContentFault == "Content index out of range"
DivideFault == "integer divide by zero"

VARIABLES
    Content,      \* TextGrid.Content: sequence of rows, each a sequence of cells
    LineNumbers,  \* TextGrid.LineNumbers
    Whitespace,   \* TextGrid.Whitespace
    cols, rows,   \* textGridRender.cols, textGridRender.rows
    objects,      \* textGridRender.objects: rectangle, text, rectangle, text, ...
    fault,        \* NoFault, or the panic that ended the program
    last,         \* the last call on the widget or renderer: its name, then the
                  \* arguments of SetText, SetRow and SetStyle
    painter       \* the text drawer: its face, the theme's tab width, the string,
                  \* the pen position Dot.X and the result of the call made

vars == <<Content, LineNumbers, Whitespace, cols, rows, objects, fault, last, painter>>

Max(a, b) == IF a >= b THEN a ELSE b
Min(a, b) == IF a <= b THEN a ELSE b

\* ------------------------------------------------------------------------
\* Cell buffer
\* ------------------------------------------------------------------------

\* strings.Split(text, "\n")
RECURSIVE Split(_)
Split(text) ==
    IF \A k \in 1..Len(text) : text[k] # NewLineRune
    THEN <<text>>
    ELSE LET m == CHOOSE k \in 1..Len(text) :
                      /\ text[k] = NewLineRune
                      /\ \A j \in 1..(k - 1) : text[j] # NewLineRune
         IN  <<SubSeq(text, 1, m - 1)>> \o Split(SubSeq(text, m + 1, Len(text)))

\* The buffer SetText builds: one row per line, one unstyled cell per rune.
SetTextBuffer(text) ==
    LET lines == Split(text)
    IN  [i \in 1..Len(lines) |->
            [j \in 1..Len(lines[i]) |-> TextGridCell(lines[i][j], NilStyle)]]

\* Text with the separator written after every row, the last one included.
RECURSIVE TextFromAlways(_, _)
TextFromAlways(content, i) ==
    IF i >= Len(content) THEN <<>>
    ELSE [j \in 1..Len(content[i + 1]) |-> content[i + 1][j].Rune]
         \o <<NewLineRune>>
         \o TextFromAlways(content, i + 1)

\* TextGrid.Text: the loop body for row i (0-based) and the rows after it.
RECURSIVE TextFrom(_, _)
TextFrom(content, i) ==
    IF i >= Len(content) THEN <<>>
    ELSE [j \in 1..Len(content[i + 1]) |-> content[i + 1][j].Rune]
         \o (IF i < Len(content) - 1 THEN <<NewLineRune>> ELSE <<>>)
         \o TextFrom(content, i + 1)

Text(content) == TextFrom(content, 0)

\* TextGrid.Row
Row(content, row) ==
    IF row < 0 \/ row >= Len(content) THEN <<>> ELSE content[row + 1]

\* The growth loop running once too often (len(t.Content) <= row + 1).
GrowRowsOneMore(content, row) ==
    content \o [k \in 1..Max(0, row + 2 - Len(content)) |-> <<>>]

\* for len(t.Content) <= row { t.Content = append(t.Content, []TextGridCell{}) }
GrowRows(content, row) ==
    content \o [k \in 1..Max(0, row + 1 - Len(content)) |-> <<>>]

\* The buffer after SetRow (row >= 0).
SetRowBuffer(content, row, cells) ==
    [GrowRows(content, row) EXCEPT ![row + 1] = cells]

\* The buffer after SetStyle.  The row is grown in the local slice `content`
\* only: t.Content[row] keeps its length, so of the local slice only the
\* cells it shares with the row (the first len(t.Content[row])) stay visible.
SetStyleBuffer(content, row, col, style) ==
    IF row < 0 \/ col < 0 THEN content
    ELSE LET grown == GrowRows(content, row)
             old == grown[row + 1]
             local == old \o [k \in 1..Max(0, col + 1 - Len(old)) |-> ZeroCell]
             styled == [local EXCEPT ![col + 1].Style = style]
         IN  [grown EXCEPT ![row + 1] = SubSeq(styled, 1, Len(old))]

\* for col := from; col <= to; col++ { t.SetStyle(row, col, style) }
RECURSIVE StyleCols(_, _, _, _, _)
StyleCols(content, row, from, to, style) ==
    IF from > to THEN content
    ELSE StyleCols(SetStyleBuffer(content, row, from, style), row, from + 1, to, style)

\* for col := from; col < len(t.Content[row]); col++ { t.SetStyle(row, col, style) }
RECURSIVE StyleRowFrom(_, _, _, _)
StyleRowFrom(content, row, col, style) ==
    IF col < Len(content[row + 1])
    THEN StyleRowFrom(SetStyleBuffer(content, row, col, style), row, col + 1, style)
    ELSE content

\* The middle rows loop of SetStyleRange, from rowNum on:
\* for rowNum := startRow + 1; rowNum < endRow-1; rowNum++ { ... }
RECURSIVE StyleMiddleRows(_, _, _, _)
StyleMiddleRows(content, rowNum, endRow, style) ==
    IF ~(rowNum < endRow - 1) THEN [Content |-> content, fault |-> NoFault]
    ELSE IF rowNum < 0 \/ rowNum >= Len(content)
         THEN [Content |-> content, fault |-> ContentFault]
         ELSE StyleMiddleRows(StyleRowFrom(content, rowNum, 0, style),
                              rowNum + 1, endRow, style)

\* SetStyleRange: the buffer it leaves and whether an index expression panicked.
SetStyleRangeResult(content, startRow, startCol, endRow, endCol, style) ==
    IF startRow = endRow
    THEN [Content |-> StyleCols(content, startRow, startCol, endCol, style),
          fault |-> NoFault]
    ELSE IF startRow < 0 \/ startRow >= Len(content)
         THEN [Content |-> content, fault |-> ContentFault]
         ELSE LET first == StyleRowFrom(content, startRow, startCol, style)
                  middle == StyleMiddleRows(first, startRow + 1, endRow, style)
              IN  IF middle.fault # NoFault THEN middle
                  ELSE [Content |-> StyleCols(middle.Content, endRow, 0, endCol, style),
                        fault |-> NoFault]

\* ------------------------------------------------------------------------
\* Renderer
\* ------------------------------------------------------------------------

\* canvas.NewRectangle(color.Transparent) and canvas.NewText(string(str), theme.TextColor())
NewRectangle == [kind |-> "rect", FillColor |-> Transparent,
                 Pos |-> <<0, 0>>, Size |-> <<0, 0>>]
NewText(str) == [kind |-> "text", Text |-> <<str>>, Color |-> ThemeTextColor,
                 Pos |-> <<0, 0>>]

\* appendTextCell
appendTextCell(objs, str) == objs \o <<NewRectangle, NewText(str)>>

\* The append loop bounded by cellCount instead of cellCount*2.
RECURSIVE ensureGridLoopHalf(_, _, _)
ensureGridLoopHalf(objs, i, cellCount) ==
    IF i < cellCount
    THEN ensureGridLoopHalf(appendTextCell(objs, SpaceRune), i + 2, cellCount)
    ELSE objs

\* The append loop of ensureGrid: for i := len(t.objects); i < cellCount*2; i += 2
RECURSIVE ensureGridLoop(_, _, _)
ensureGridLoop(objs, i, cellCount) ==
    IF i < cellCount * 2
    THEN ensureGridLoop(appendTextCell(objs, SpaceRune), i + 2, cellCount)
    ELSE objs

\* ensureGrid cutting the pool back to the grid when the grid shrinks.
ensureGridExact(objs, c, r) ==
    LET cellCount == c * r
    IN  IF Len(objs) > cellCount * 2 THEN SubSeq(objs, 1, cellCount * 2)
        ELSE ensureGridLoop(objs, Len(objs), cellCount)

\* ensureGrid
ensureGrid(objs, c, r) ==
    LET cellCount == c * r
    IN  IF Len(objs) = cellCount * 2 THEN objs
        ELSE ensureGridLoop(objs, Len(objs), cellCount)

\* The colours setCellRune resolves for a style.
ResolveFG(style) ==
    IF ~style.isNil /\ TextColor(style) # NilColor THEN TextColor(style)
    ELSE ThemeTextColor
ResolveBG(style) ==
    IF ~style.isNil /\ BackgroundColor(style) # NilColor THEN BackgroundColor(style)
    ELSE Transparent

\* The string setCellRune stores in the text object.
CellText(str) == IF str = 0 THEN <<SpaceRune>> ELSE <<str>>

\* setCellRune on a slot inside the pool: t.objects[pos*2] is the rectangle,
\* t.objects[pos*2+1] the text (sequences are 1-based here).
setCellRune(objs, str, pos, style) ==
    [objs EXCEPT ![pos * 2 + 1].FillColor = ResolveBG(style),
                 ![pos * 2 + 2].Text = CellText(str),
                 ![pos * 2 + 2].Color = ResolveFG(style)]

\* fmt.Sprintf("%d", n) for n >= 0, as runes
RECURSIVE Sprintf(_)
Sprintf(n) ==
    IF n < 10 THEN <<DigitZero + n>>
    ELSE Sprintf(n \div 10) \o <<DigitZero + (n % 10)>>

\* lineCountWidth
lineCountWidth(r) == Len(Sprintf(r + 1))

Glyph(str, style) == [str |-> str, style |-> style]

\* The gutter of a row: the digits of line, padding up to lineCountWidth, '|'.
GutterGlyphs(line, r) ==
    LET lineStr == Sprintf(line)
    IN  [c \in 1..Len(lineStr) |-> Glyph(lineStr[c], TextGridStyleWhitespace)]
        \o [k \in 1..Max(0, lineCountWidth(r) - Len(lineStr)) |->
                Glyph(SpaceRune, TextGridStyleWhitespace)]
        \o <<Glyph(PipeRune, TextGridStyleWhitespace)>>

\* A space painted as the marker in the cell's own style, foreground included.
CellGlyphOwnStyle(cell, ws) ==
    IF ws /\ cell.Rune = SpaceRune
    THEN IF ~cell.Style.isNil /\ BackgroundColor(cell.Style) # NilColor
         THEN Glyph(textAreaSpaceSymbol, cell.Style)
         ELSE Glyph(textAreaSpaceSymbol, TextGridStyleWhitespace)
    ELSE Glyph(cell.Rune, cell.Style)

\* What one buffer cell is painted as.
CellGlyph(cell, ws) ==
    IF ws /\ cell.Rune = SpaceRune
    THEN IF ~cell.Style.isNil /\ BackgroundColor(cell.Style) # NilColor
         THEN Glyph(textAreaSpaceSymbol,
                    CustomTextGridStyle(TextColor(TextGridStyleWhitespace),
                                        BackgroundColor(cell.Style)))
         ELSE Glyph(textAreaSpaceSymbol, TextGridStyleWhitespace)
    ELSE Glyph(cell.Rune, cell.Style)

\* A row painted without the trailing blanks that fill it up to cols.
RowGlyphsNoFill(row, rowIndex, bufRows, ln, ws, c, r) ==
    LET gutter == IF ln THEN GutterGlyphs(rowIndex + 1, r) ELSE <<>>
        i0 == Len(gutter)
        drawn == Max(0, Min(Len(row), c - i0))
        cells == [k \in 1..drawn |-> CellGlyph(row[k], ws)]
        i1 == i0 + drawn
        newline == IF ws /\ i1 < c /\ rowIndex < bufRows - 1
                   THEN <<Glyph(textAreaNewLineSymbol, TextGridStyleWhitespace)>>
                   ELSE <<>>
    IN  gutter \o cells \o newline

\* The setCellRune calls refreshGrid makes for one buffer row, in order; each
\* call is followed by x++.  i counts the columns used: cells are skipped once
\* i >= cols, the gutter is written whatever cols is.
RowGlyphs(row, rowIndex, bufRows, ln, ws, c, r) ==
    LET gutter == IF ln THEN GutterGlyphs(rowIndex + 1, r) ELSE <<>>
        i0 == Len(gutter)
        drawn == Max(0, Min(Len(row), c - i0))
        cells == [k \in 1..drawn |-> CellGlyph(row[k], ws)]
        i1 == i0 + drawn
        newline == IF ws /\ i1 < c /\ rowIndex < bufRows - 1
                   THEN <<Glyph(textAreaNewLineSymbol, TextGridStyleWhitespace)>>
                   ELSE <<>>
        i2 == i1 + Len(newline)
        blanks == [k \in 1..Max(0, c - i2) |-> Glyph(SpaceRune, TextGridStyleDefault)]
    IN  gutter \o cells \o newline \o blanks

\* The calls for the buffer rows from rowIndex on (the loop stops at t.rows).
RECURSIVE RowsGlyphs(_, _, _, _, _, _)
RowsGlyphs(content, rowIndex, ln, ws, c, r) ==
    IF rowIndex >= Len(content) \/ rowIndex >= r THEN <<>>
    ELSE RowGlyphs(content[rowIndex + 1], rowIndex, Len(content), ln, ws, c, r)
         \o RowsGlyphs(content, rowIndex + 1, ln, ws, c, r)

\* Apply the calls glyphs[k..] at slots x, x+1, ...; stop at the first slot
\* outside the pool, where t.objects[pos*2] panics.
RECURSIVE PaintGlyphs(_, _, _, _)
PaintGlyphs(objs, glyphs, k, x) ==
    IF k > Len(glyphs) THEN [objects |-> objs, x |-> x, fault |-> NoFault]
    ELSE IF x * 2 + 1 < Len(objs)
         THEN PaintGlyphs(setCellRune(objs, glyphs[k].str, x, glyphs[k].style),
                          glyphs, k + 1, x + 1)
         ELSE [objects |-> objs, x |-> x, fault |-> ObjectsFault]

\* The slots after the painted rows left as they are.
BlankRestSkipped(objs, x) == objs

\* for ; x < len(t.objects)/2; x++ { t.setCellRune(' ', x, TextGridStyleDefault) }
RECURSIVE BlankRest(_, _)
BlankRest(objs, x) ==
    IF x < Len(objs) \div 2
    THEN BlankRest(setCellRune(objs, SpaceRune, x, TextGridStyleDefault), x + 1)
    ELSE objs

\* refreshGrid: the pool it leaves and whether it panicked.
refreshGrid(objs, content, ln, ws, c, r) ==
    LET painted == PaintGlyphs(objs, RowsGlyphs(content, 0, ln, ws, c, r), 1, 0)
    IN  IF painted.fault # NoFault
        THEN [objects |-> painted.objects, fault |-> painted.fault]
        ELSE [objects |-> BlankRest(painted.objects, painted.x), fault |-> NoFault]

\* textGridRender.Refresh: ensureGrid, then refreshGrid.
RenderRefresh(objs, content, ln, ws, c, r) ==
    refreshGrid(ensureGrid(objs, c, r), content, ln, ws, c, r)

\* updateGridSize: the new <<cols, rows>>.  lineCountWidth reads t.rows as it
\* is when updateGridSize is entered.
updateGridSize(content, ln, ws, r, width, height) ==
    LET bufRows == Len(content)
        widest == IF content = <<>> THEN 0
                  ELSE CHOOSE n \in {Len(content[k]) : k \in 1..Len(content)} :
                           \A k \in 1..Len(content) : Len(content[k]) <= n
        sizeCols == width \div cellWidth
        sizeRows == height \div cellHeight
        bufCols == widest + (IF ws THEN 1 ELSE 0)
                          + (IF ln THEN lineCountWidth(r) ELSE 0)
    IN  <<Max(sizeCols, bufCols), Max(sizeRows, bufRows)>>

\* The positioning loops of Layout: slot i = y*cols + x goes to
\* (x*cellWidth, y*cellHeight); the rectangle is resized to cellSize.
PlaceObjects(objs, c, r) ==
    [k \in 1..Len(objs) |->
        LET i == (k - 1) \div 2
            cellPos == <<(i % c) * cellWidth, (i \div c) * cellHeight>>
        IN  IF c > 0 /\ i < c * r
            THEN IF k % 2 = 1
                 THEN [objs[k] EXCEPT !.Pos = cellPos, !.Size = <<cellWidth, cellHeight>>]
                 ELSE [objs[k] EXCEPT !.Pos = cellPos]
            ELSE objs[k]]

\* textGridRender.Layout: the new cols, rows and pool.
LayoutResult(objs, content, ln, ws, r, width, height) ==
    LET size == updateGridSize(content, ln, ws, r, width, height)
    IN  [cols |-> size[1], rows |-> size[2],
         objects |-> PlaceObjects(ensureGrid(objs, size[1], size[2]), size[1], size[2])]

\* ------------------------------------------------------------------------
\* Text drawer (package painter)
\* ------------------------------------------------------------------------
\* A face is a record: advance[c] and ok[c] are what GlyphAdvance(c) and
\* Glyph(dot, c) report for rune c, kern[<<p, c>>] is Kern(p, c).  Positions
\* are fixed.Int26_6 values taken as integers; the values of the model stay
\* far inside the 32 bits of the type.

\* The widget specifications run without a drawer.
NoDrawer == "no drawer"
\* The result field of a drawer before a call is made on it.
NotRun == [x |-> 0, fault |-> "not run"]

\* Go's integer division, which truncates towards zero (b # 0).
GoDiv(a, b) ==
    LET abs(v) == IF v < 0 THEN -v ELSE v
        q == abs(a) \div abs(b)
    IN  IF (a < 0) = (b < 0) THEN q ELSE -q

\* tabStop(f, x) under a theme whose tab width is tabWidth: the position it
\* returns, or the panic of the division when tabw is 0.
tabStop(f, tabWidth, x) ==
    IF ~f.ok[SpaceRune] THEN [x |-> x, fault |-> NoFault]
    ELSE LET tabw == f.advance[SpaceRune] * tabWidth
         IN  IF tabw = 0 THEN [x |-> x, fault |-> DivideFault]
             ELSE [x |-> tabw * GoDiv(x + tabw, tabw), fault |-> NoFault]

\* The loop of Drawer.DrawString from rune k of s on, with prevC and Dot.X
\* as the iterations before left them (prevC = -1: no previous rune).
RECURSIVE DrawFrom(_, _, _, _, _, _)
DrawFrom(f, tabWidth, s, k, prevC, x) ==
    IF k > Len(s) THEN [x |-> x, fault |-> NoFault]
    ELSE LET c == s[k]
             kerned == IF prevC >= 0 THEN x + f.kern[<<prevC, c>>] ELSE x
         IN  IF c = TabRune
             THEN LET stop == tabStop(f, tabWidth, kerned)
                  IN  IF stop.fault # NoFault THEN [x |-> kerned, fault |-> stop.fault]
                      ELSE DrawFrom(f, tabWidth, s, k + 1, c, stop.x)
             ELSE IF ~f.ok[c]
                  THEN DrawFrom(f, tabWidth, s, k + 1, prevC, kerned)
                  ELSE DrawFrom(f, tabWidth, s, k + 1, c, kerned + f.advance[c])

\* Drawer.DrawString(s) with the pen at Dot.X = dot: where it leaves Dot.X.
DrawString(f, tabWidth, s, dot) == DrawFrom(f, tabWidth, s, 1, -1, dot)

\* The loop of MeasureString from rune k of s on.
RECURSIVE MeasureFrom(_, _, _, _, _, _)
MeasureFrom(f, tabWidth, s, k, prevC, advance) ==
    IF k > Len(s) THEN [x |-> advance, fault |-> NoFault]
    ELSE LET c == s[k]
             kerned == IF prevC >= 0 THEN advance + f.kern[<<prevC, c>>] ELSE advance
         IN  IF c = TabRune
             THEN LET stop == tabStop(f, tabWidth, kerned)
                  IN  IF stop.fault # NoFault THEN [x |-> kerned, fault |-> stop.fault]
                      ELSE MeasureFrom(f, tabWidth, s, k + 1, c, stop.x)
             ELSE IF ~f.ok[c]
                  THEN MeasureFrom(f, tabWidth, s, k + 1, prevC, kerned)
                  ELSE MeasureFrom(f, tabWidth, s, k + 1, c, kerned + f.advance[c])

\* MeasureString(f, s)
MeasureString(f, tabWidth, s) == MeasureFrom(f, tabWidth, s, 1, -1, 0)

\* ------------------------------------------------------------------------
\* Inputs
\* ------------------------------------------------------------------------
Strings(alphabet, n) == UNION {[1..k -> alphabet] : k \in 0..n}

RedOnBlue == CustomTextGridStyle("red", "blue")
Styles == {RedOnBlue}

\* Arguments of the buffer API in SpecBuffer.
Texts == Strings({RuneA, SpaceRune, NewLineRune}, MaxText)
RowContents == Strings({TextGridCell(RuneA, NilStyle), ZeroCell}, MaxRowLen)
RowArgs == -1..MaxRow
ColArgs == -1..MaxCol

\* Arguments in Spec, where the renderer runs as well.
GridTexts == Strings({RuneA, NewLineRune}, GridMaxText)
GridRowContents == Strings({TextGridCell(RuneA, NilStyle)}, GridMaxRowLen)
GridRowArgs == 0..GridMaxRow
GridColArgs == 0..GridMaxCol
Widths == {0, MaxWidth}
Heights == {0, MaxHeight}

\* The texts a grid is created from in SpecPaint.
PaintTexts == Strings({RuneA, SpaceRune, 0, NewLineRune}, PaintMaxText)

\* ------------------------------------------------------------------------
\* State machine
\* ------------------------------------------------------------------------

\* NewTextGrid followed by CreateRenderer.
Init ==
    /\ Content = <<>>
    /\ LineNumbers = FALSE
    /\ Whitespace = FALSE
    /\ cols = 0
    /\ rows = 0
    /\ objects = <<>>
    /\ fault = NoFault
    /\ last = <<"NewTextGrid">>
    /\ painter = NoDrawer

\* t.Refresh() of the widget with the buffer newContent: the renderer's Refresh.
WidgetRefresh(newContent) ==
    LET res == RenderRefresh(objects, newContent, LineNumbers, Whitespace, cols, rows)
    IN  /\ objects' = res.objects
        /\ fault' = res.fault

SetText(text) ==
    /\ fault = NoFault
    /\ Content' = SetTextBuffer(text)
    /\ WidgetRefresh(Content')
    /\ last' = <<"SetText", text>>
    /\ UNCHANGED <<LineNumbers, Whitespace, cols, rows, painter>>

\* SetRow storing the row without calling t.Refresh().
SetRowNoRefresh(row, content) ==
    /\ fault = NoFault
    /\ last' = <<"SetRow", row, content>>
    /\ Content' = IF row < 0 THEN Content ELSE SetRowBuffer(Content, row, content)
    /\ UNCHANGED <<LineNumbers, Whitespace, cols, rows, objects, fault, painter>>

SetRow(row, content) ==
    /\ fault = NoFault
    /\ last' = <<"SetRow", row, content>>
    /\ IF row < 0
       THEN UNCHANGED <<Content, objects, fault>>
       ELSE /\ Content' = SetRowBuffer(Content, row, content)
            /\ WidgetRefresh(Content')
    /\ UNCHANGED <<LineNumbers, Whitespace, cols, rows, painter>>

SetStyle(row, col, style) ==
    /\ fault = NoFault
    /\ Content' = SetStyleBuffer(Content, row, col, style)
    /\ last' = <<"SetStyle", row, col, style>>
    /\ UNCHANGED <<LineNumbers, Whitespace, cols, rows, objects, fault, painter>>

SetStyleRange(startRow, startCol, endRow, endCol, style) ==
    LET res == SetStyleRangeResult(Content, startRow, startCol, endRow, endCol, style)
    IN  /\ fault = NoFault
        /\ Content' = res.Content
        /\ fault' = res.fault
        /\ last' = <<"SetStyleRange">>
        /\ UNCHANGED <<LineNumbers, Whitespace, cols, rows, objects, painter>>

\* The caller assigns the exported field LineNumbers.
SetLineNumbers(b) ==
    /\ fault = NoFault
    /\ LineNumbers' = b
    /\ last' = <<"LineNumbers">>
    /\ UNCHANGED <<Content, Whitespace, cols, rows, objects, fault, painter>>

\* The caller assigns the exported field Whitespace.
SetWhitespace(b) ==
    /\ fault = NoFault
    /\ Whitespace' = b
    /\ last' = <<"Whitespace">>
    /\ UNCHANGED <<Content, LineNumbers, cols, rows, objects, fault, painter>>

\* textGridRender.Layout(size)
Layout(width, height) ==
    LET res == LayoutResult(objects, Content, LineNumbers, Whitespace, rows, width, height)
    IN  /\ fault = NoFault
        /\ cols' = res.cols
        /\ rows' = res.rows
        /\ objects' = res.objects
        /\ last' = <<"Layout">>
        /\ UNCHANGED <<Content, LineNumbers, Whitespace, fault, painter>>

\* textGridRender.Refresh()
Refresh ==
    /\ fault = NoFault
    /\ WidgetRefresh(Content)
    /\ last' = <<"Refresh">>
    /\ UNCHANGED <<Content, LineNumbers, Whitespace, cols, rows, painter>>

\* TextGrid.Resize(size): BaseWidget.Resize lays the renderer out at the new
\* size, then t.Refresh() repaints.
Resize(width, height) ==
    LET lay == LayoutResult(objects, Content, LineNumbers, Whitespace, rows, width, height)
        res == RenderRefresh(lay.objects, Content, LineNumbers, Whitespace,
                             lay.cols, lay.rows)
    IN  /\ fault = NoFault
        /\ cols' = lay.cols
        /\ rows' = lay.rows
        /\ objects' = res.objects
        /\ fault' = res.fault
        /\ last' = <<"Resize">>
        /\ UNCHANGED <<Content, LineNumbers, Whitespace, painter>>

Next ==
    \/ \E text \in GridTexts : SetText(text)
    \/ \E row \in GridRowArgs, content \in GridRowContents : SetRow(row, content)
    \/ \E row \in GridRowArgs, col \in GridColArgs, style \in Styles :
            SetStyle(row, col, style)
    \/ \E startRow \in GridRowArgs, startCol \in GridColArgs, endRow \in GridRowArgs,
          endCol \in GridColArgs, style \in Styles :
            SetStyleRange(startRow, startCol, endRow, endCol, style)
    \/ \E b \in BOOLEAN : SetLineNumbers(b)
    \/ \E b \in BOOLEAN : SetWhitespace(b)
    \/ \E width \in Widths, height \in Heights : Layout(width, height)
    \/ Refresh
    \/ \E width \in Widths, height \in Heights : Resize(width, height)

Spec == Init /\ [][Next]_vars

\* The buffer API alone, on a widget that has not been laid out yet.
NextBuffer ==
    \/ \E text \in Texts : SetText(text)
    \/ \E row \in RowArgs, content \in RowContents : SetRow(row, content)
    \/ \E row \in RowArgs, col \in ColArgs, style \in Styles : SetStyle(row, col, style)
    \/ \E startRow \in RowArgs, startCol \in ColArgs, endRow \in RowArgs,
          endCol \in ColArgs, style \in Styles :
            SetStyleRange(startRow, startCol, endRow, endCol, style)

SpecBuffer == Init /\ [][NextBuffer]_vars

\* A grid made by NewTextGridFromString(text), given its flags and at most one
\* cell style (SetStyle with row -1 styles nothing) before its renderer is
\* created.
InitPaint ==
    \E text \in PaintTexts, ln \in BOOLEAN, ws \in BOOLEAN,
       row \in -1..GridMaxRow, col \in GridColArgs :
        /\ Content = SetStyleBuffer(SetTextBuffer(text), row, col, RedOnBlue)
        /\ LineNumbers = ln
        /\ Whitespace = ws
        /\ cols = 0
        /\ rows = 0
        /\ objects = <<>>
        /\ fault = NoFault
        /\ last = <<"NewTextGridFromString">>
        /\ painter = NoDrawer

\* The renderer's passes over a buffer that stays as it is.
NextPaint ==
    \/ \E width \in Widths, height \in Heights : Layout(width, height)
    \/ Refresh
    \/ \E width \in Widths, height \in Heights : Resize(width, height)

SpecPaint == InitPaint /\ [][NextPaint]_vars

\* The rows of a grid in SpecGutter: all empty, or all one letter.
GutterRowContents == {<<>>, <<TextGridCell(RuneA, NilStyle)>>}

\* A grid of n equal rows (SetRow(0, row) ... SetRow(n-1, row) on a new grid)
\* with its flags set before its renderer is created.
InitGutter ==
    \E n \in 0..GutterLines, row \in GutterRowContents, ln \in BOOLEAN, ws \in BOOLEAN :
        /\ Content = [i \in 1..n |-> row]
        /\ LineNumbers = ln
        /\ Whitespace = ws
        /\ cols = 0
        /\ rows = 0
        /\ objects = <<>>
        /\ fault = NoFault
        /\ last = <<"NewTextGrid">>
        /\ painter = NoDrawer

\* Layout and Refresh passes over a buffer of up to GutterLines rows.
NextGutter ==
    \/ \E width \in Widths, height \in Heights : Layout(width, height)
    \/ Refresh

SpecGutter == InitGutter /\ [][NextGutter]_vars

\* The runes of the strings in SpecText and the runes a face has entries for.
GlyphLetters == {97, 98}    \* 'a', 'b'
StrRunes == GlyphLetters \cup {TabRune}
GlyphRunes == GlyphLetters \cup {SpaceRune}

\* The kerning table with v for the pair (p, c) and 0 for every other pair.
KernTable(p, c, v) ==
    [pair \in StrRunes \X StrRunes |-> IF pair = <<p, c>> THEN v ELSE 0]

Faces ==
    {[advance |-> adv, ok |-> ok, kern |-> KernTable(p, c, v)] :
        adv \in [GlyphRunes -> 0..MaxAdvance], ok \in [GlyphRunes -> BOOLEAN],
        p \in StrRunes, c \in StrRunes, v \in 0..MaxKern}

\* A drawer with a face, a theme tab width, a string and a pen position.
InitText ==
    \E f \in Faces, tabWidth \in 0..MaxTabWidth, s \in Strings(StrRunes, MaxStr),
       dot \in 0..MaxDot :
        /\ painter = [face |-> f, tabWidth |-> tabWidth, s |-> s, Dot |-> dot,
                      result |-> NotRun]
        /\ Content = <<>>
        /\ LineNumbers = FALSE
        /\ Whitespace = FALSE
        /\ cols = 0
        /\ rows = 0
        /\ objects = <<>>
        /\ fault = NoFault
        /\ last = <<"Drawer">>

\* One call on the drawer: its result is recorded, a panic ends the run.
Call(name, res) ==
    /\ fault = NoFault
    /\ painter.result = NotRun
    /\ painter' = [painter EXCEPT !.result = res]
    /\ fault' = res.fault
    /\ last' = <<name>>
    /\ UNCHANGED <<Content, LineNumbers, Whitespace, cols, rows, objects>>

CallTabStop ==
    Call("tabStop", tabStop(painter.face, painter.tabWidth, painter.Dot))

CallDrawString ==
    Call("DrawString", DrawString(painter.face, painter.tabWidth, painter.s, painter.Dot))

CallMeasureString ==
    Call("MeasureString", MeasureString(painter.face, painter.tabWidth, painter.s))

NextText ==
    \/ CallTabStop
    \/ CallDrawString
    \/ CallMeasureString

SpecText == InitText /\ [][NextText]_vars

\* ------------------------------------------------------------------------
\* Properties of the pool (Spec)
\* ------------------------------------------------------------------------

\* The calls that run a Layout or Refresh pass of the renderer.
RanPass(call) ==
    \/ call[1] \in {"Layout", "Refresh", "Resize", "SetText"}
    \/ call[1] = "SetRow" /\ call[2] >= 0

\* C1 as stated: at the end of every Layout or Refresh pass the pool holds
\* exactly 2 * cols * rows objects, also after cols * rows became smaller.
C1_PoolIsExactlyGrid ==
    RanPass(last) => Len(objects) = 2 * cols * rows

\* C1 amended: every Layout or Refresh pass leaves the pool with the larger of
\* its previous length and 2 * cols * rows objects, so the pool covers the grid
\* and is exactly 2 * cols * rows unless it was longer before the pass.
C1_PoolCoversGrid ==
    [][RanPass(last') =>
        Len(objects') = Max(Len(objects), 2 * cols' * rows')]_vars

\* A Layout pass has left a pool longer than a non-empty grid needs.
C1_Witness ==
    /\ last[1] = "Layout"
    /\ cols * rows > 0
    /\ Len(objects) > 2 * cols * rows

\* C2: in every step the pool keeps or increases its length, and its length
\* is even (one rectangle and one text per slot).
C2_PoolGrowsInPairs ==
    [][Len(objects') >= Len(objects) /\ Len(objects') % 2 = 0]_vars

\* A Layout pass computed an empty grid and the slots made earlier are still there.
C2_Witness ==
    /\ last[1] = "Layout"
    /\ cols * rows = 0
    /\ Len(objects) >= 2
    /\ \A k \in 1..Len(objects) :
           objects[k].kind = (IF k % 2 = 1 THEN "rect" ELSE "text")

\* C3: no setCellRune call of refreshGrid indexes objects out of range.
C3_NoObjectsIndexOutOfRange ==
    fault # ObjectsFault

\* The pool shows what a render pass over the current buffer paints.
Painted ==
    objects = RenderRefresh(objects, Content, LineNumbers, Whitespace, cols, rows).objects

C4_SetStyleGrowsAndStyles ==
    (last[1] = "SetStyle" /\ last[2] >= 0 /\ last[3] >= 0) =>
        /\ Len(Content) >= last[2] + 1
        /\ Len(Row(Content, last[2])) >= last[3] + 1
        /\ Row(Content, last[2])[last[3] + 1].Style = last[4]

\* C5: a call of SetRow, SetStyle or SetStyleRange with a negative row or
\* column argument completes without failing and leaves Content unchanged.
C5_NegativeIndexIsNoOp ==
    [][(\/ last'[1] = "SetRow" /\ last'[2] < 0
        \/ last'[1] = "SetStyle" /\ (last'[2] < 0 \/ last'[3] < 0)
        \/ /\ last'[1] = "SetStyleRange"
           /\ \E startRow \in RowArgs, startCol \in ColArgs, endRow \in RowArgs,
                 endCol \in ColArgs, style \in Styles :
                 /\ startRow < 0 \/ startCol < 0 \/ endRow < 0 \/ endCol < 0
                 /\ SetStyleRange(startRow, startCol, endRow, endCol, style))
        => (fault' = NoFault /\ Content' = Content)]_vars

\* The number of '\n' in a string.
NewLines(text) == Cardinality({k \in 1..Len(text) : text[k] = NewLineRune})

\* C6: after SetText(t), Text() returns exactly t and the buffer has one row
\* more than t has '\n'.
C6_SetTextRoundTrip ==
    last[1] = "SetText" =>
        /\ Text(Content) = last[2]
        /\ Len(Content) = NewLines(last[2]) + 1

\* SetText was given a string that ends in '\n': its last row is empty.
C6_Witness ==
    /\ last[1] = "SetText"
    /\ last[2] = <<RuneA, NewLineRune>>
    /\ Len(Content) = 2
    /\ Content[2] = <<>>
    /\ Text(Content) = <<RuneA, NewLineRune>>

\* The cells SetStyleRange is to style: those of startRow from startCol on,
\* all of the rows in between, those of endRow up to endCol.
InStyleRange(r, c, startRow, startCol, endRow, endCol) ==
    /\ startRow <= r
    /\ r <= endRow
    /\ r = startRow => c >= startCol
    /\ r = endRow => c <= endCol

\* C8: SetStyleRange with 0 <= startRow <= endRow < number of rows and columns
\* inside their rows sets the style on every existing cell between the start
\* and the end position.
C8_SetStyleRangeStylesAll ==
    [][last'[1] = "SetStyleRange" =>
        \A startRow \in 0..(Len(Content) - 1), endRow \in 0..(Len(Content) - 1),
           startCol \in 0..MaxCol, endCol \in 0..MaxCol, style \in Styles :
            (/\ startRow <= endRow
             /\ startCol < Len(Content[startRow + 1])
             /\ endCol < Len(Content[endRow + 1])
             /\ startRow = endRow => startCol <= endCol
             /\ SetStyleRange(startRow, startCol, endRow, endCol, style))
            => \A r \in 0..(Len(Content) - 1) :
                 \A c \in 0..(Len(Content[r + 1]) - 1) :
                    InStyleRange(r, c, startRow, startCol, endRow, endCol)
                    => /\ r < Len(Content')
                       /\ c < Len(Content'[r + 1])
                       /\ Content'[r + 1][c + 1].Style = style]_vars

\* C9: after SetRow(row, c) with row >= 0 the buffer has max(previous row
\* count, row+1) rows, Row(row) is c, every other row that existed is
\* unchanged and every other new row is empty.
C9_SetRowFrame ==
    [][(last'[1] = "SetRow" /\ last'[2] >= 0) =>
        /\ Len(Content') = Max(Len(Content), last'[2] + 1)
        /\ Row(Content', last'[2]) = last'[3]
        /\ \A r \in 0..(Len(Content') - 1) :
              r # last'[2] =>
                 Row(Content', r) = (IF r < Len(Content) THEN Content[r + 1] ELSE <<>>)]_vars

\* SetRow wrote row 2 of a buffer that had one non-empty row: row 0 is kept,
\* row 1 is new and empty.
C9_Witness ==
    /\ last[1] = "SetRow"
    /\ last[2] = 2
    /\ Len(Content) = 3
    /\ Content[1] # <<>>
    /\ Content[2] = <<>>
    /\ Content[3] = last[3]
    /\ Content[3] # <<>>

\* ------------------------------------------------------------------------
\* Properties of the painted grid (SpecPaint)
\* ------------------------------------------------------------------------

\* What slot pos of the pool shows: the text, its colour, the fill colour.
Shown(pos) ==
    <<objects[2 * pos + 2].Text, objects[2 * pos + 2].Color, objects[2 * pos + 1].FillColor>>

\* What the slot of an existing buffer cell is to show without whitespace
\* markers: its rune (a space for rune 0) in the colours of its style, the
\* theme text colour and a transparent fill where the style gives none.
CellShown(cell) ==
    << IF cell.Rune = 0 THEN <<SpaceRune>> ELSE <<cell.Rune>>,
       IF cell.Style.isNil \/ cell.Style.FGColor = NilColor
       THEN ThemeTextColor ELSE cell.Style.FGColor,
       IF cell.Style.isNil \/ cell.Style.BGColor = NilColor
       THEN Transparent ELSE cell.Style.BGColor >>

BlankShown == << <<SpaceRune>>, ThemeTextColor, Transparent >>

\* C10: with LineNumbers and Whitespace off, after Layout followed by Refresh
\* on an unchanged buffer, slot r*cols + c shows buffer cell (r, c) when it
\* exists and a blank in the default style otherwise, for all r < rows and
\* c < cols.
C10_GridShowsBuffer ==
    (/\ last[1] \in {"Refresh", "Resize"}
     /\ ~LineNumbers
     /\ ~Whitespace
     /\ fault = NoFault)
    => \A r \in 0..(rows - 1), c \in 0..(cols - 1) :
          /\ 2 * (r * cols + c) + 1 < Len(objects)
          /\ Shown(r * cols + c) =
                IF r < Len(Content) /\ c < Len(Content[r + 1])
                THEN CellShown(Content[r + 1][c + 1])
                ELSE BlankShown

\* A 2x2 grid painted from a buffer of two rows, the first with a letter and
\* an empty-sentinel cell, the second empty.
C10_Witness ==
    /\ last[1] = "Refresh"
    /\ ~LineNumbers
    /\ ~Whitespace
    /\ fault = NoFault
    /\ cols = 2
    /\ rows = 2
    /\ Len(Content) = 2
    /\ Len(Content[1]) = 2
    /\ Content[1][1].Rune = RuneA
    /\ Content[1][1].Style = RedOnBlue
    /\ Content[1][2].Rune = 0
    /\ Content[2] = <<>>
    /\ Shown(0) = << <<RuneA>>, "red", "blue" >>
    /\ Shown(1) = BlankShown
    /\ Shown(2) = BlankShown
    /\ Shown(3) = BlankShown

\* ------------------------------------------------------------------------
\* Properties of the gutter and the whitespace markers
\* ------------------------------------------------------------------------

\* A render pass (ensureGrid, refreshGrid) ran last and returned.
PassCompleted ==
    /\ fault = NoFault
    /\ \/ last[1] \in {"Refresh", "Resize", "SetText"}
       \/ last[1] = "SetRow" /\ last[2] >= 0

\* The slots a painted row starts with when LineNumbers is on: the digits of
\* its number padded to the digits of rows + 1, and the separator.
GutterSlots == IF LineNumbers THEN Len(Sprintf(rows + 1)) + 1 ELSE 0

\* The slots a painted row takes: cols, or the gutter when that is wider.
RowAdvance == Max(cols, GutterSlots)

\* Buffer cell (r, k) is among the cells a pass paints, and the slot it is
\* painted in.
CellRendered(r, k) == r < rows /\ GutterSlots + k < cols
CellSlot(r, k) == r * RowAdvance + GutterSlots + k

\* C12: with Whitespace on, after a render pass every painted buffer cell
\* whose rune is a space shows the whitespace marker in the foreground colour
\* of the whitespace style, on the background of the cell's style when that
\* is set and on a transparent background otherwise.
C12_SpaceShownAsMarker ==
    (PassCompleted /\ Whitespace) =>
        \A r \in 0..(Len(Content) - 1) :
            \A k \in 0..(Len(Content[r + 1]) - 1) :
                (CellRendered(r, k) /\ Content[r + 1][k + 1].Rune = SpaceRune) =>
                    /\ 2 * CellSlot(r, k) + 1 < Len(objects)
                    /\ Shown(CellSlot(r, k)) =
                          << <<textAreaSpaceSymbol>>,
                             ThemeButtonColor,
                             IF /\ ~Content[r + 1][k + 1].Style.isNil
                                /\ Content[r + 1][k + 1].Style.BGColor # NilColor
                             THEN Content[r + 1][k + 1].Style.BGColor
                             ELSE Transparent >>

\* A pass painted a space styled red on blue and an unstyled space as markers
\* (the first keeps its blue background) behind a line number gutter.
C12_Witness ==
    /\ PassCompleted
    /\ Whitespace
    /\ LineNumbers
    /\ Len(Content) = 1
    /\ Len(Content[1]) = 2
    /\ Content[1][1] = TextGridCell(SpaceRune, RedOnBlue)
    /\ Content[1][2] = TextGridCell(SpaceRune, NilStyle)
    /\ cols >= 4
    /\ Shown(2) = << <<textAreaSpaceSymbol>>, ThemeButtonColor, "blue" >>
    /\ Shown(3) = << <<textAreaSpaceSymbol>>, ThemeButtonColor, Transparent >>

\* ------------------------------------------------------------------------
\* Properties of a render pass (Spec)
\* ------------------------------------------------------------------------

\* C17: when SetText or SetRow (row >= 0) has returned, rows and cols have
\* been recomputed from the new buffer: rows is at least the number of buffer
\* rows and cols at least the length of every row, so no row or cell is
\* dropped because of dimensions left by an earlier pass.
C17_MutationRecomputesGrid ==
    (/\ \/ last[1] = "SetText"
        \/ last[1] = "SetRow" /\ last[2] >= 0
     /\ fault = NoFault)
    => /\ rows >= Len(Content)
       /\ \A r \in 1..Len(Content) : cols >= Len(Content[r])

\* The number of slots the rows of the buffer are painted in.
PaintedSlots == Min(Len(Content), rows) * RowAdvance

\* C18: after a render pass every slot of the pool behind the slots painted
\* by buffer rows shows a blank in the default style: the theme text colour
\* on a transparent background, nothing of what the slot showed before.
C18_TrailingSlotsBlank ==
    PassCompleted =>
        \A pos \in 0..(Len(objects) \div 2 - 1) :
            pos >= PaintedSlots => Shown(pos) = BlankShown

\* SetText("") has repainted a pool of at least two slots: the buffer is one
\* empty row, and the slots behind that row are blank.
C18_Witness ==
    /\ last = <<"SetText", <<>>>>
    /\ fault = NoFault
    /\ cols >= 1
    /\ rows >= 1
    /\ Len(objects) \div 2 > PaintedSlots
    /\ Shown(Len(objects) \div 2 - 1) = BlankShown

\* What the slot of a buffer cell is to show: the whitespace marker for a
\* space when Whitespace is on, the cell otherwise.
CellShownMarked(cell) ==
    IF Whitespace /\ cell.Rune = SpaceRune
    THEN << <<textAreaSpaceSymbol>>, ThemeButtonColor,
            IF cell.Style.isNil \/ cell.Style.BGColor = NilColor
            THEN Transparent ELSE cell.Style.BGColor >>
    ELSE CellShown(cell)

\* C19: after a render pass painted row r starts at slot r * cols: with
\* LineNumbers on that slot shows the first digit of r + 1 in the whitespace
\* style, with LineNumbers off it shows the first cell of a row that has one.
C19_RowsStartAtMultiplesOfCols ==
    PassCompleted =>
        \A r \in 0..(Min(Len(Content), rows) - 1) :
            IF LineNumbers
            THEN /\ 2 * (r * cols) + 1 < Len(objects)
                 /\ Shown(r * cols) =
                       << <<Sprintf(r + 1)[1]>>, ThemeButtonColor, Transparent >>
            ELSE (cols > 0 /\ Content[r + 1] # <<>>) =>
                     Shown(r * cols) = CellShownMarked(Content[r + 1][1])

\* Every cell of every buffer row is shown in its slot behind the gutter of
\* its row, and with Whitespace on every row but the last is followed by the
\* end-of-line marker inside its row.
NothingClipped ==
    /\ \A r \in 0..(Len(Content) - 1) :
          \A k \in 0..(Len(Content[r + 1]) - 1) :
             /\ r < rows
             /\ GutterSlots + k < cols
             /\ 2 * (r * cols + GutterSlots + k) + 1 < Len(objects)
             /\ Shown(r * cols + GutterSlots + k) = CellShownMarked(Content[r + 1][k + 1])
    /\ Whitespace =>
          \A r \in 0..(Len(Content) - 2) :
             /\ r < rows
             /\ GutterSlots + Len(Content[r + 1]) < cols
             /\ 2 * (r * cols + GutterSlots + Len(Content[r + 1])) + 1 < Len(objects)
             /\ Shown(r * cols + GutterSlots + Len(Content[r + 1])) =
                   << <<textAreaNewLineSymbol>>, ThemeButtonColor, Transparent >>

\* C20: a Refresh that follows a Layout directly (buffer and flags as Layout
\* saw them) and returns has painted every cell of every buffer row, and with
\* Whitespace on the end-of-line marker of every row but the last.
C20_LayoutFitsBuffer ==
    [][(last[1] = "Layout" /\ last'[1] = "Refresh" /\ fault' = NoFault)
        => NothingClipped']_vars

\* ------------------------------------------------------------------------
\* Properties of the gutter and of the grid size (SpecGutter)
\* ------------------------------------------------------------------------

\* C11: with LineNumbers on, 10 buffer rows and rows = 10 the gutter is 2
\* wide, and in a grid wide enough for it (cols >= 3) a Refresh pass paints
\* the gutter of the row numbered 5 as ' ', '5', '|' in this order of slots,
\* each in the whitespace style.
C11_GutterOfRowFive ==
    (/\ LineNumbers
     /\ Len(Content) = 10
     /\ rows = 10
     /\ cols >= 3
     /\ last[1] = "Refresh"
     /\ fault = NoFault)
    => /\ lineCountWidth(rows) = 2
       /\ Shown(4 * cols) = << <<SpaceRune>>, ThemeButtonColor, Transparent >>
       /\ Shown(4 * cols + 1) = << <<DigitZero + 5>>, ThemeButtonColor, Transparent >>
       /\ Shown(4 * cols + 2) = << <<PipeRune>>, ThemeButtonColor, Transparent >>

\* The length of the longest buffer row.
WidestRow ==
    IF Content = <<>> THEN 0
    ELSE CHOOSE n \in {Len(Content[k]) : k \in 1..Len(Content)} :
             \A k \in 1..Len(Content) : Len(Content[k]) <= n

\* C13: every Layout(width, height) leaves rows = max(height / cellHeight,
\* buffer rows) and cols = max(width / cellWidth, widest row + 1 if Whitespace
\* + gutter width if LineNumbers), the gutter width being the number of
\* digits of rows + 1 for the rows this Layout computes.
C13_GridSizeFormula ==
    [][\A width \in Widths, height \in Heights :
         Layout(width, height) =>
            /\ rows' = Max(height \div cellHeight, Len(Content))
            /\ cols' = Max(width \div cellWidth,
                           WidestRow + (IF Whitespace THEN 1 ELSE 0)
                             + (IF LineNumbers THEN Len(Sprintf(rows' + 1)) ELSE 0))]_vars

\* ------------------------------------------------------------------------
\* Properties of the text drawer (SpecText)
\* ------------------------------------------------------------------------

\* The runes of s that have a glyph, in order.
WithGlyph(f, s) == SelectSeq(s, LAMBDA c : f.ok[c])

RECURSIVE SumAdvances(_, _, _)
SumAdvances(f, s, k) ==
    IF k > Len(s) THEN 0 ELSE f.advance[s[k]] + SumAdvances(f, s, k + 1)

RECURSIVE SumKerns(_, _, _)
SumKerns(f, s, k) ==
    IF k >= Len(s) THEN 0 ELSE f.kern[<<s[k], s[k + 1]>>] + SumKerns(f, s, k + 1)

\* C14: for a string without a tab MeasureString returns the sum of the
\* advances of its runes that have a glyph plus the kerning of every pair of
\* neighbours among those runes; a rune without a glyph adds nothing.
C14_MeasureIsAdvancesPlusKerning ==
    (last[1] = "MeasureString" /\ \A k \in 1..Len(painter.s) : painter.s[k] # TabRune)
    => /\ painter.result.fault = NoFault
       /\ painter.result.x =
             SumAdvances(painter.face, WithGlyph(painter.face, painter.s), 1)
             + SumKerns(painter.face, WithGlyph(painter.face, painter.s), 1)

\* C15: tabStop(f, x) returns without failing; when the face has a space
\* glyph of width w and the tab width is n, the value is a multiple of
\* tabw = w * n, at least x, and equal to floor((x + tabw) / tabw) * tabw;
\* when the face has no space glyph the value is x.
C15_TabStopIsNextMultiple ==
    last[1] = "tabStop" =>
        LET tabw == painter.face.advance[SpaceRune] * painter.tabWidth
        IN  /\ painter.result.fault = NoFault
            /\ IF ~painter.face.ok[SpaceRune] THEN painter.result.x = painter.Dot
               ELSE /\ painter.result.x >= painter.Dot
                    /\ tabw # 0 =>
                          /\ painter.result.x % tabw = 0
                          /\ painter.result.x = ((painter.Dot + tabw) \div tabw) * tabw

\* C16: when DrawString(s) has returned, Dot.X has moved by MeasureString(f, s)
\* from wherever the pen started.
C16_DrawMovesByMeasure ==
    (last[1] = "DrawString" /\ painter.result.fault = NoFault)
    => painter.result.x - painter.Dot =
          MeasureString(painter.face, painter.tabWidth, painter.s).x

====
